---- MODULE Spec2Model ----
(***************************************************************************)
(* Model of backend/feature_flags.py: the FeatureFlags object (registry,   *)
(* environment), its loader, its three queries and reload_flags.           *)
(*                                                                         *)
(* JSON values are encoded as records of one shape per field, so that any  *)
(* two values of a field can be compared:                                  *)
(*   registry    [kind: "dict" | "list" | "scalar", items: Seq([name,def])]*)
(*     "dict"   a JSON object                                              *)
(*     "list"   a JSON list of strings, items[i].name its i-th element     *)
(*     "scalar" null, a number or a boolean: no `in`, no iteration         *)
(*   definition  [map, null, enabled, environments, user_groups,           *)
(*                rollout_percentage]                                      *)
(* A Python None is the token None; a raised exception is a result of      *)
(* kind "raise" carrying the source line that raises.                      *)
(***************************************************************************)
EXTENDS Integers, Sequences, FiniteSets, TLC

VARIABLES
    flags,        \* self.flags: the held registry
    environment,  \* self.environment.value
    str_hash,     \* this process's str.__hash__ on the non-empty user ids
    last,         \* the last completed call: operation, arguments, result
    thr           \* the in-flight query of the concurrent specification

vars == <<flags, environment, str_hash, last, thr>>

-----------------------------------------------------------------------------
(* Bounds and program constants *)

MaxFlags == 2
MaxReloads == 1

RolloutDefault == 100
FullRollout == 100
HashBuckets == 100

None == "<None>"

EnvNames == {"development", "staging", "production"}
FlagNames == {"a", "b", "c"}
Groups == {None, "", "sales", "basic"}
UserIds == {None, "", "u1"}
NonEmptyIds == {u \in UserIds : u # None /\ u # ""}
HashVals == {-151, 49, 200}
NodeEnvs == {None, "production", "Staging", "test"}

-----------------------------------------------------------------------------
(* Values of the configuration document *)

EnvField(kind, on, off) == [kind |-> kind, on |-> on, off |-> off]
GroupsField(kind, items) == [kind |-> kind, items |-> items]
PctField(kind, v) == [kind |-> kind, v |-> v]

EnabledFields == {"absent", "true", "false"}
EnvFields ==
    { EnvField("absent", {}, {}),
      EnvField("scalar", {}, {}),
      EnvField("map", {"production"}, {"staging"}),
      EnvField("map", {"development", "staging"}, {"production"}) }
GroupsFields ==
    { GroupsField("absent", <<>>),
      GroupsField("list", <<>>),
      GroupsField("list", <<"sales">>) }
PctFields ==
    { PctField("absent", 0), PctField("str", 0) }
    \cup { PctField("int", v) : v \in {-5, 0, 50, 100, 150} }

\* a definition that is neither a JSON object nor null (a number, a string,
\* a boolean, a list): it has no .get
ScalarDef ==
    [map |-> FALSE, null |-> FALSE, enabled |-> "absent",
     environments |-> EnvField("absent", {}, {}),
     user_groups |-> GroupsField("absent", <<>>),
     rollout_percentage |-> PctField("absent", 0)]

\* a definition that is the JSON null: no .get either, and the None that
\* dict.get returns for it is the None of a missing name
NullDef == [ScalarDef EXCEPT !.null = TRUE]

MapDef(en, envs, groups, pct) ==
    [map |-> TRUE, null |-> FALSE, enabled |-> en, environments |-> envs,
     user_groups |-> groups, rollout_percentage |-> pct]

RichDefs ==
    { MapDef(en, envs, groups, pct) :
        en \in EnabledFields, envs \in EnvFields,
        groups \in GroupsFields, pct \in PctFields }
    \cup {ScalarDef, NullDef}

DefOn ==
    MapDef("true", EnvField("map", EnvNames, {}),
           GroupsField("list", <<"sales">>), PctField("int", 150))
DefHalf ==
    MapDef("true", EnvField("map", EnvNames, {}),
           GroupsField("absent", <<>>), PctField("int", 50))
SmallDefs == {DefOn, DefHalf}

Item(n, d) == [name |-> n, def |-> d]
Registry(kind, items) == [kind |-> kind, items |-> items]
EmptyRegistry == Registry("dict", <<>>)
\* "features": null, a number or a boolean
ScalarRegistry == Registry("scalar", <<>>)
\* "features": a list of the given strings
ListRegistry(names) ==
    Registry("list", [i \in 1..Len(names) |-> Item(names[i], ScalarDef)])

Names(items) == {items[i].name : i \in 1..Len(items)}
DistinctNames(items) == Cardinality(Names(items)) = Len(items)

ItemSeqs(names, defs, n) ==
    { s \in UNION {[1..k -> {Item(nm, d) : nm \in names, d \in defs}] : k \in 0..n} :
        DistinctNames(s) }

\* a configuration source: what open() and json.load() make of it
Doc(kind, features) == [kind |-> kind, features |-> features]
BrokenDocs ==
    { Doc("missing", EmptyRegistry), Doc("badjson", EmptyRegistry),
      Doc("nonobject", EmptyRegistry), Doc("nofeatures", EmptyRegistry),
      Doc("object", ScalarRegistry),
      Doc("object", ListRegistry(<<>>)),
      Doc("object", ListRegistry(<<"a">>)),
      Doc("object", Registry("dict", <<Item("a", ScalarDef)>>)),
      Doc("object", Registry("dict", <<Item("a", NullDef)>>)),
      Doc("object", Registry("dict", <<Item("b", DefOn), Item("a", ScalarDef)>>)) }
SmallDocs ==
    { Doc("object", Registry("dict", s)) : s \in ItemSeqs(FlagNames, SmallDefs, MaxFlags) }
RichDocs ==
    { Doc("object", Registry("dict", s)) : s \in ItemSeqs({"a"}, RichDefs, 1) }
Documents == SmallDocs \cup BrokenDocs

-----------------------------------------------------------------------------
(* Results *)

NoCfg == ScalarDef
Result(kind, b, line, names, cfg) ==
    [kind |-> kind, b |-> b, line |-> line, names |-> names, cfg |-> cfg]
RetBool(b, line) == Result("bool", b, line, <<>>, NoCfg)
Raise(line) == Result("raise", FALSE, line, <<>>, NoCfg)
RetList(names) == Result("list", FALSE, 94, names, NoCfg)
RetCfg(d) == Result("config", FALSE, 98, <<>>, d)
RetNone(line) == Result("none", FALSE, line, <<>>, NoCfg)

IsTrue(r) == r.kind = "bool" /\ r.b
IsFalse(r) == r.kind = "bool" /\ ~r.b

-----------------------------------------------------------------------------
(* Python helpers *)

Truthy(s) == s # None /\ s # ""
Abs(n) == IF n < 0 THEN -n ELSE n
Range(s) == {s[i] : i \in 1..Len(s)}

\* str.lower() on the NODE_ENV values of the model
Lower(s) == IF s = "Staging" THEN "staging" ELSE s

\* hash(user_id): 0 for the empty string, keyed per process otherwise
PyHash(h, uid) == IF uid = "" THEN 0 ELSE h[uid]

-----------------------------------------------------------------------------
(* FeatureFlags._get_environment *)

GetEnvironment(node_env) ==
    LET env == Lower(IF node_env = None THEN "development" ELSE node_env)
    IN  IF env = "production" THEN "production"
        ELSE IF env = "staging" THEN "staging"
        ELSE "development"

(* FeatureFlags._load_flags: raised is an exception that leaves the method *)
Loaded(raised, reg) == [raised |-> raised, flags |-> reg]

LoadFlags(doc) ==
    CASE doc.kind = "missing"    -> Loaded(FALSE, EmptyRegistry)
      [] doc.kind = "badjson"    -> Loaded(FALSE, EmptyRegistry)
      [] doc.kind = "nonobject"  -> Loaded(TRUE, EmptyRegistry)
      [] doc.kind = "nofeatures" -> Loaded(FALSE, EmptyRegistry)
      [] OTHER                   -> Loaded(FALSE, doc.features)

-----------------------------------------------------------------------------
(* FeatureFlags.is_feature_enabled *)

Contains(reg, name) == name \in Names(reg.items)

Lookup(reg, name) ==
    LET i == CHOOSE j \in 1..Len(reg.items) : reg.items[j].name = name
    IN  reg.items[i].def

\* variant: the master switch defaults to on when the key is missing
EnabledGate_DefaultOn(feature) == feature.enabled # "false"

EnabledGate(feature) == feature.enabled = "true"

EnvGate(feature, env) == env \in feature.environments.on

GroupRejects(feature, group) ==
    /\ Truthy(group)
    /\ LET allowed_groups == feature.user_groups.items
       IN  Len(allowed_groups) > 0 /\ group \notin Range(allowed_groups)

UserHash(h, uid) == Abs(PyHash(h, uid)) % HashBuckets

\* variant: the comparison of line 83 the other way round
RolloutRejects_Inverted(rollout_percentage, user_hash) == user_hash < rollout_percentage

RolloutRejects(rollout_percentage, user_hash) == user_hash >= rollout_percentage

\* lines 64-86, on the definition read at line 61
EvalFeature(feature, env, h, group, uid) ==
    IF ~feature.map THEN Raise(64)
    ELSE IF ~EnabledGate(feature) THEN RetBool(FALSE, 65)
    ELSE IF feature.environments.kind = "scalar" THEN Raise(69)
    ELSE IF ~EnvGate(feature, env) THEN RetBool(FALSE, 70)
    ELSE IF GroupRejects(feature, group) THEN RetBool(FALSE, 76)
    ELSE LET pct == feature.rollout_percentage IN
         IF pct.kind = "str" THEN Raise(80)
         ELSE LET rollout_percentage ==
                      IF pct.kind = "absent" THEN RolloutDefault ELSE pct.v
              IN  IF rollout_percentage < FullRollout /\ Truthy(uid)
                     /\ RolloutRejects(rollout_percentage, UserHash(h, uid))
                  THEN RetBool(FALSE, 84)
                  ELSE RetBool(TRUE, 86)

IsFeatureEnabled(reg, env, h, name, group, uid) ==
    IF reg.kind = "scalar" THEN Raise(58)
    ELSE IF ~Contains(reg, name) THEN RetBool(FALSE, 59)
    ELSE IF reg.kind = "list" THEN Raise(61)
    ELSE EvalFeature(Lookup(reg, name), env, h, group, uid)

-----------------------------------------------------------------------------
(* FeatureFlags.get_enabled_features, get_feature_config *)

\* variant: the name goes to the front of the list
Collect_Prepend(enabled, feature_name) == <<feature_name>> \o enabled

Collect(enabled, feature_name) == Append(enabled, feature_name)

RECURSIVE EnabledLoop(_, _, _, _, _, _, _)
EnabledLoop(reg, env, h, group, uid, i, enabled) ==
    IF i > Len(reg.items) THEN RetList(enabled)
    ELSE LET feature_name == reg.items[i].name
             r == IsFeatureEnabled(reg, env, h, feature_name, group, uid)
         IN  IF r.kind = "raise" THEN r
             ELSE EnabledLoop(reg, env, h, group, uid, i + 1,
                              IF r.b THEN Collect(enabled, feature_name) ELSE enabled)

GetEnabledFeatures(reg, env, h, group, uid) ==
    IF reg.kind = "scalar" THEN Raise(91)
    ELSE EnabledLoop(reg, env, h, group, uid, 1, <<>>)

GetFeatureConfig(reg, name) ==
    IF reg.kind # "dict" THEN Raise(98)
    ELSE IF Contains(reg, name) /\ ~Lookup(reg, name).null
         THEN RetCfg(Lookup(reg, name))
         ELSE RetNone(98)

-----------------------------------------------------------------------------
(* State *)

Call(op, name, group, uid, src, ret) ==
    [op |-> op, name |-> name, group |-> group, uid |-> uid, src |-> src, ret |-> ret]

\* a query in flight: its arguments, its position, its locals (the iterator
\* it over the registry of line 91, the index i into it, the list enabled,
\* the feature_name of the nested call), and held, the registries self.flags
\* has referred to since the call began
Thread(pc, op, name, group, uid, held, it, i, enabled, feature_name, ret) ==
    [pc |-> pc, op |-> op, name |-> name, group |-> group, uid |-> uid,
     held |-> held, it |-> it, i |-> i, enabled |-> enabled,
     feature_name |-> feature_name, ret |-> ret]
IdleThread ==
    Thread("idle", "none", None, None, None, <<>>, <<>>, 0, <<>>, None, RetNone(0))

HashTables == [NonEmptyIds -> HashVals]

\* FeatureFlags.__init__ on a source that loads
Construct(docs) ==
    \E doc \in docs, node_env \in NodeEnvs, h \in HashTables :
        /\ ~LoadFlags(doc).raised
        /\ flags = LoadFlags(doc).flags
        /\ environment = GetEnvironment(node_env)
        /\ str_hash = h
        /\ last = Call("init", None, None, None, doc.kind, RetNone(20))
        /\ thr = IdleThread

Init == Construct(Documents)

(* Whole-call operations *)

IsEnabledCall ==
    \E name \in FlagNames, group \in Groups, uid \in UserIds :
        /\ last' = Call("is_feature_enabled", name, group, uid, "",
                        IsFeatureEnabled(flags, environment, str_hash, name, group, uid))
        /\ UNCHANGED <<flags, environment, str_hash, thr>>

GetEnabledCall ==
    \E group \in Groups, uid \in UserIds :
        /\ last' = Call("get_enabled_features", None, group, uid, "",
                        GetEnabledFeatures(flags, environment, str_hash, group, uid))
        /\ UNCHANGED <<flags, environment, str_hash, thr>>

GetConfigCall ==
    \E name \in FlagNames :
        /\ last' = Call("get_feature_config", name, None, None, "",
                        GetFeatureConfig(flags, name))
        /\ UNCHANGED <<flags, environment, str_hash, thr>>

ReloadFlags ==
    \E doc \in Documents :
        LET l == LoadFlags(doc) IN
        /\ flags' = IF l.raised THEN flags ELSE l.flags
        /\ last' = Call("reload_flags", None, None, None, doc.kind,
                        IF l.raised THEN Raise(38) ELSE RetNone(102))
        /\ UNCHANGED <<environment, str_hash, thr>>

\* the process is started again on the same source and the same NODE_ENV:
\* the module-level FeatureFlags() is rebuilt under a fresh hash key
Restart ==
    LET doc == CHOOSE d \in Documents :
                   ~LoadFlags(d).raised /\ LoadFlags(d).flags = flags
        node_env == CHOOSE n \in NodeEnvs : GetEnvironment(n) = environment
    IN  \E h \in HashTables :
            /\ flags' = LoadFlags(doc).flags
            /\ environment' = GetEnvironment(node_env)
            /\ str_hash' = h
            /\ last' = Call("init", None, None, None, doc.kind, RetNone(20))
            /\ UNCHANGED thr

Next ==
    \/ IsEnabledCall
    \/ GetEnabledCall
    \/ GetConfigCall
    \/ ReloadFlags
    \/ Restart

Spec == Init /\ [][Next]_vars

(* Evaluation of one loaded registry: the queries alone, over every        *)
(* combination of the fields of a definition                               *)
InitEval == Construct(RichDocs)

NextEval ==
    \/ IsEnabledCall
    \/ GetEnabledCall
    \/ GetConfigCall

SpecEval == InitEval /\ [][NextEval]_vars

-----------------------------------------------------------------------------
(* Queries running while reload_flags rebinds self.flags.  A query reads   *)
(* self.flags at line 58 and again at line 61 (is_feature_enabled), and at *)
(* line 91 (get_enabled_features, which then calls is_feature_enabled per  *)
(* name); every other step works on locals and on self.environment, which  *)
(* reload_flags leaves alone.                                              *)

ConcDocs ==
    { Doc("object", Registry("dict", s)) : s \in ItemSeqs({"a", "b"}, {DefOn}, MaxFlags) }
    \cup { Doc("nonobject", EmptyRegistry),
           Doc("object", ScalarRegistry),
           Doc("object", ListRegistry(<<>>)),
           Doc("object", ListRegistry(<<"a">>)),
           Doc("object", Registry("dict", <<Item("a", DefHalf)>>)) }

InitConc == Construct(ConcDocs)

\* the loop of lines 91-94 from index i on, with the nested calls that
\* answer without reading self.flags again folded in
Advance(t, i, enabled) ==
    IF i > Len(t.it)
    THEN [t EXCEPT !.pc = "done", !.i = i, !.enabled = enabled, !.ret = RetList(enabled)]
    ELSE [t EXCEPT !.pc = "l58", !.i = i, !.enabled = enabled,
                   !.feature_name = t.it[i].name]

\* the nested or outer is_feature_enabled returns r
Return(t, r) ==
    IF t.op = "is_feature_enabled" \/ r.kind = "raise"
    THEN [t EXCEPT !.pc = "done", !.ret = r]
    ELSE Advance(t, t.i + 1,
                 IF r.b THEN Collect(t.enabled, t.feature_name) ELSE t.enabled)

BeginIsEnabled ==
    /\ thr.pc = "idle"
    /\ \E name \in FlagNames, group \in Groups, uid \in UserIds :
           thr' = Thread("l58", "is_feature_enabled", name, group, uid,
                         <<flags>>, <<>>, 0, <<>>, name, RetNone(0))
    /\ UNCHANGED <<flags, environment, str_hash, last>>

BeginGetEnabled ==
    /\ thr.pc = "idle"
    /\ \E group \in Groups, uid \in UserIds :
           thr' = Thread("l91", "get_enabled_features", None, group, uid,
                         <<flags>>, <<>>, 0, <<>>, None, RetNone(0))
    /\ UNCHANGED <<flags, environment, str_hash, last>>

\* line 91: iter(self.flags)
Line91 ==
    /\ thr.pc = "l91"
    /\ thr' = IF flags.kind = "scalar"
              THEN [thr EXCEPT !.pc = "done", !.ret = Raise(91)]
              ELSE Advance([thr EXCEPT !.it = flags.items], 1, <<>>)
    /\ UNCHANGED <<flags, environment, str_hash, last>>

\* line 58: feature_name not in self.flags
Line58 ==
    /\ thr.pc = "l58"
    /\ thr' = IF flags.kind = "scalar" THEN Return(thr, Raise(58))
              ELSE IF ~Contains(flags, thr.feature_name)
                   THEN Return(thr, RetBool(FALSE, 59))
                   ELSE [thr EXCEPT !.pc = "l61"]
    /\ UNCHANGED <<flags, environment, str_hash, last>>

\* line 61: feature = self.flags[feature_name], then lines 64-86 on feature
Line61 ==
    /\ thr.pc = "l61"
    /\ thr' = IF flags.kind # "dict" \/ ~Contains(flags, thr.feature_name)
              THEN Return(thr, Raise(61))
              ELSE Return(thr, EvalFeature(Lookup(flags, thr.feature_name),
                                           environment, str_hash, thr.group, thr.uid))
    /\ UNCHANGED <<flags, environment, str_hash, last>>

\* the caller takes thr.ret
Finish ==
    /\ thr.pc = "done"
    /\ thr' = IdleThread
    /\ UNCHANGED <<flags, environment, str_hash, last>>

\* reload_flags on another thread; at most MaxReloads of them during one query
ReloadConc ==
    /\ thr.pc # "idle" => Len(thr.held) <= MaxReloads
    /\ \E doc \in ConcDocs :
           LET l == LoadFlags(doc) IN
           /\ flags' = IF l.raised THEN flags ELSE l.flags
           /\ thr' = IF thr.pc = "idle" \/ l.raised THEN thr
                     ELSE [thr EXCEPT !.held = Append(@, l.flags)]
    /\ UNCHANGED <<environment, str_hash, last>>

NextConc ==
    \/ BeginIsEnabled
    \/ BeginGetEnabled
    \/ Line91
    \/ Line58
    \/ Line61
    \/ Finish
    \/ ReloadConc

SpecConc == InitConc /\ [][NextConc]_vars

-----------------------------------------------------------------------------
(* Properties.  In Spec and SpecEval, last is a query only while flags,    *)
(* environment and str_hash are those the query ran on: reload_flags and   *)
(* a restart overwrite it.                                                 *)

LastIsEnabled == last.op = "is_feature_enabled"
LastPresent == flags.kind = "dict" /\ Contains(flags, last.name)
LastDef == Lookup(flags, last.name)

\* the definition is a mapping whose master switch is on
SwitchOn(d) == d.map /\ d.enabled = "true"
\* ... and whose environments is a mapping with a true entry for env
EnvOn(d, env) == d.environments.kind = "map" /\ env \in d.environments.on
\* ... and whose environments can be read: a mapping, or missing
EnvReadable(d) == d.environments.kind # "scalar"

PassesFirstGates == LastPresent /\ SwitchOn(LastDef) /\ EnvOn(LastDef, environment)

\* a group is provided (any string, the empty one included), the allow-list
\* is non-empty and the group is not in it
GroupExcluded(d, group) ==
    /\ group # None
    /\ d.user_groups.kind = "list"
    /\ d.user_groups.items # <<>>
    /\ \A k \in 1..Len(d.user_groups.items) : d.user_groups.items[k] # group

FullPct(d) ==
    \/ d.rollout_percentage.kind = "absent"
    \/ d.rollout_percentage.kind = "int" /\ d.rollout_percentage.v >= FullRollout

(* C1: a query that runs while reload_flags runs returns what it would     *)
(* return on one of the registries held during the call, the one before or *)
(* one after a reload, and never fails because of the swap.                *)
C1_SingleSnapshot ==
    thr.pc = "done" =>
        \E k \in 1..Len(thr.held) :
            thr.ret =
                IF thr.op = "is_feature_enabled"
                THEN IsFeatureEnabled(thr.held[k], environment, str_hash,
                                      thr.name, thr.group, thr.uid)
                ELSE GetEnabledFeatures(thr.held[k], environment, str_hash,
                                        thr.group, thr.uid)

(* C2: is_feature_enabled never raises: whatever the registry holds, the   *)
(* call returns a boolean.                                                 *)
C2_NeverRaises == LastIsEnabled => last.ret.kind = "bool"

(* C3: with the registry and the environment unchanged, every              *)
(* is_feature_enabled query has the same answer after a step as before it, *)
(* a restart of the process included.                                      *)
C3_StableAcrossRestart ==
    [][ (flags' = flags /\ environment' = environment) =>
          \A name \in FlagNames, group \in Groups, uid \in UserIds :
              IsFeatureEnabled(flags', environment', str_hash', name, group, uid)
                = IsFeatureEnabled(flags, environment, str_hash, name, group, uid) ]_vars

(* C4: is_feature_enabled returns true only for a flag that is present,    *)
(* whose enabled is true and whose environments has a true entry for the   *)
(* current environment; a missing flag, a master switch that is false or   *)
(* missing, an environment entry that is false or missing each give false, *)
(* whatever the group and the user id.                                     *)
C4_TrueOnlyThroughGates ==
    LastIsEnabled =>
        /\ IsTrue(last.ret) => PassesFirstGates
        /\ (flags.kind = "dict" /\ ~Contains(flags, last.name)) => IsFalse(last.ret)
        /\ (LastPresent /\ LastDef.map /\ LastDef.enabled # "true") => IsFalse(last.ret)
        /\ (LastPresent /\ SwitchOn(LastDef) /\ EnvReadable(LastDef)
              /\ environment \notin LastDef.environments.on) => IsFalse(last.ret)

C4_Witness ==
    /\ LastIsEnabled /\ IsTrue(last.ret)
    /\ last.group = "sales" /\ last.uid = "u1"
    /\ LastDef.rollout_percentage = PctField("int", 50)

(* C5: past the first three gates, the group check returns false (line 76) *)
(* exactly when a group is provided, user_groups is non-empty and the      *)
(* group is not in it; otherwise the call goes on to the rollout check and *)
(* is true whenever the rollout is full.                                   *)
C5_GroupGate ==
    (LastIsEnabled /\ PassesFirstGates) =>
        /\ (last.ret.kind = "bool" /\ last.ret.line = 76)
              <=> GroupExcluded(LastDef, last.group)
        /\ GroupExcluded(LastDef, last.group) => IsFalse(last.ret)
        /\ (~GroupExcluded(LastDef, last.group) /\ FullPct(LastDef)) => IsTrue(last.ret)

(* C6: with rollout_percentage 0 the call is false for every user id that  *)
(* is supplied, the empty string included; with rollout_percentage 100 it  *)
(* is true for every caller past the earlier gates, user id or not.        *)
C6_RolloutExtremes ==
    (LastIsEnabled /\ LastPresent /\ LastDef.map) =>
        /\ (LastDef.rollout_percentage = PctField("int", 0) /\ last.uid # None)
              => ~IsTrue(last.ret)
        /\ (LastDef.rollout_percentage = PctField("int", 100) /\ PassesFirstGates
              /\ ~GroupExcluded(LastDef, last.group))
              => IsTrue(last.ret)

(* C7: a call that is true under rollout_percentage P1 is true under every *)
(* P2 > P1, the flag, user id, group and environment otherwise the same.   *)
ModelPercentages == -6 .. 151

WithRollout(reg, name, p) ==
    Registry(reg.kind,
             [i \in 1..Len(reg.items) |->
                 IF reg.items[i].name = name
                 THEN Item(name, [reg.items[i].def EXCEPT
                                     !.rollout_percentage = PctField("int", p)])
                 ELSE reg.items[i]])

EffectivePct(d) ==
    IF d.rollout_percentage.kind = "absent" THEN RolloutDefault
    ELSE d.rollout_percentage.v

C7_RolloutMonotone ==
    (LastIsEnabled /\ IsTrue(last.ret)) =>
        \A p2 \in ModelPercentages :
            p2 > EffectivePct(LastDef) =>
                IsTrue(IsFeatureEnabled(WithRollout(flags, last.name, p2), environment,
                                        str_hash, last.name, last.group, last.uid))

C7_Witness ==
    /\ LastIsEnabled /\ IsTrue(last.ret)
    /\ last.uid = "u1"
    /\ LastDef.rollout_percentage = PctField("int", 50)
    /\ UserHash(str_hash, last.uid) = 49

(* C8: get_enabled_features returns the names of the registry, in the      *)
(* registry's order and each once, for which is_feature_enabled is true.   *)
C8_EnabledIsFilter ==
    (last.op = "get_enabled_features" /\ flags.kind # "scalar") =>
        LET names == [i \in 1..Len(flags.items) |-> flags.items[i].name]
            Answer(n) == IsFeatureEnabled(flags, environment, str_hash, n,
                                          last.group, last.uid)
            On(n) == IsTrue(Answer(n))
        IN  /\ last.ret.kind \in {"list", "raise"}
            /\ last.ret.kind = "list" => last.ret.names = SelectSeq(names, On)
            /\ last.ret.kind = "raise"
                 <=> \E i \in 1..Len(names) : Answer(names[i]).kind = "raise"

C8_Witness ==
    /\ last.op = "get_enabled_features"
    /\ Len(flags.items) = 2
    /\ last.ret.kind = "list"
    /\ last.ret.names = <<flags.items[2].name>>

(* C9: a load error, a missing source or a malformed one, never leaves     *)
(* the loader: the registry is empty afterwards and every flag is off.     *)
LoadErrors == {"missing", "badjson", "nonobject"}

C9_LoadErrorGivesEmptyRegistry ==
    (last.op \in {"init", "reload_flags"} /\ last.src \in LoadErrors) =>
        /\ last.ret.kind # "raise"
        /\ flags = EmptyRegistry
        /\ \A name \in FlagNames, group \in Groups, uid \in UserIds :
               IsFalse(IsFeatureEnabled(flags, environment, str_hash, name, group, uid))

(* C10: every rollout_percentage held in the registry, and so every one    *)
(* get_feature_config hands out, lies in 0..100.                           *)
InRange(d) ==
    d.rollout_percentage.kind = "int" =>
        (d.rollout_percentage.v >= 0 /\ d.rollout_percentage.v <= 100)

C10_RolloutInRange ==
    /\ \A i \in 1..Len(flags.items) : InRange(flags.items[i].def)
    /\ (last.op = "get_feature_config" /\ last.ret.kind = "config") => InRange(last.ret.cfg)

====
